---------------------------- MODULE Spec2Model ----------------------------
(***************************************************************************)
(* A model of durctoo: the HTML5 form data model (forms.py), its JSON      *)
(* loading (HTML5FormData.create_from_json) and the template skins         *)
(* (templates/*.py).                                                       *)
(*                                                                         *)
(* Encoding of Python values.                                              *)
(*   - a dict is a function from key strings to values;                    *)
(*   - a list is a sequence;                                               *)
(*   - an Optional value is None (the empty sequence) or Some(v) (the      *)
(*     one-element sequence <<v>>).  The keys max_select, size and         *)
(*     default_value, which the code stores even when they are None, hold  *)
(*     such an Optional; every other key holds the value itself;           *)
(*   - an HTTP method string is a sequence of one-character strings, so    *)
(*     that str.upper() is computed character by character.                *)
(***************************************************************************)
EXTENDS Integers, Sequences, FiniteSets, TLC

VARIABLES
    form,       \* the client's HTML5FormData object F, or NoForm
    ctor,       \* the client's constructor call: its method argument and the exception it raised
    pc,         \* position of the create_from_json call
    source,     \* argument of the create_from_json call
    data,       \* local variable data of create_from_json
    instance,   \* the form create_from_json builds and returns, or NoForm
    err,        \* exception create_from_json raised, or NoError
    schema,     \* class attribute HTML5FormData._schema
    rendered,   \* first call of a skin's buildForm and what it returned
    fragment,   \* call of a skin's buildCSS, buildHTML or buildJS: the form before it, and its outcome
    again,      \* a later call of the same skin's buildForm and what it returned
    disk,       \* the file json_schemas/html5_form.schema.json as it is on disk
    loads,      \* the calls of _get_schema so far: whether the file was opened, and the schema returned
    heap,       \* the objects shared by reference: address (index) to dict or list
    names       \* the client's names for them: the form F, its options list, r = F.to_dict(), G = create_from_json(D)

vars == <<form, ctor, pc, source, data, instance, err, schema, rendered, fragment, again, disk, loads, heap, names>>

-----------------------------------------------------------------------------
(* Bounds of the model *)

\* largest number of elements a form or a document holds
MaxElems == 2

\* number of create_from_json calls of one process that fetch the schema
MaxCalls == 3

-----------------------------------------------------------------------------
(* Python values *)

None == <<>>
Some(v) == <<v>>

NoForm == [absent |-> TRUE]
NoMessage == [reason |-> "none", names |-> ""]
NoError == [kind |-> "none", prefix |-> "", message |-> NoMessage, path |-> <<>>]
NoCall == [called |-> FALSE]

\* dict.get(key, default)
Get(d, key, default) == IF key \in DOMAIN d THEN d[key] ELSE default

\* dict.get(key) of a key whose value is never null: None when the key is absent
GetOpt(d, key) == IF key \in DOMAIN d THEN Some(d[key]) ELSE None

\* the dict d restricted to the keys other than key
Without(d, key) == [k \in (DOMAIN d) \ {key} |-> d[k]]

-----------------------------------------------------------------------------
(* FormMethod *)

LowerChars == <<"g", "e", "t", "p", "o", "s", "u">>
UpperChars == <<"G", "E", "T", "P", "O", "S", "U">>
Chars == {LowerChars[i] : i \in DOMAIN LowerChars} \cup {UpperChars[i] : i \in DOMAIN UpperChars}

\* str.upper() of one character
UpperChar(c) ==
    IF \E i \in DOMAIN LowerChars : LowerChars[i] = c
    THEN UpperChars[CHOOSE i \in DOMAIN LowerChars : LowerChars[i] = c]
    ELSE c

\* str.upper()
Upper(s) == [i \in DOMAIN s |-> UpperChar(s[i])]

GET == <<"G", "E", "T">>
POST == <<"P", "O", "S", "T">>
FormMethod == {GET, POST}

\* the exceptions the code raises: the class, the fixed text, and for a schema
\* violation the validator's message and path that line 115 copies into the text
Exception(kind, prefix) == [kind |-> kind, prefix |-> prefix, message |-> NoMessage, path |-> <<>>]
InvalidFormMethod == Exception("ValueError", "Invalid form method")

from_string_no_upper(value) ==
    IF value \in FormMethod
    THEN [ok |-> TRUE, member |-> value]
    ELSE [ok |-> FALSE, error |-> InvalidFormMethod]

\* FormMethod.from_string: cls(value.upper()), ValueError for any other string
from_string(value) ==
    IF Upper(value) \in FormMethod
    THEN [ok |-> TRUE, member |-> Upper(value)]
    ELSE [ok |-> FALSE, error |-> InvalidFormMethod]

\* a method argument: a FormMethod member or a str
EnumArg(m) == [type |-> "FormMethod", value |-> m]
StrArg(s) == [type |-> "str", value |-> s]

-----------------------------------------------------------------------------
(* InputType *)

InputType ==
    {"text", "password", "email", "url", "number", "tel", "date", "time",
     "datetime-local", "month", "week", "color", "checkbox", "radio", "hidden",
     "submit", "reset", "button", "file"}

-----------------------------------------------------------------------------
(* HTML5FormData: constructor, add_* and to_dict *)

\* __init__ ignoring its method argument
HTML5FormData_always_get(form_id, method, action, enctype) ==
    [ok |-> TRUE,
     obj |-> [form_header |-> [form_id |-> form_id, method |-> GET, action |-> action, enctype |-> enctype],
              form_elements |-> <<>>]]

\* __init__ leaving an empty enctype out of the header
HTML5FormData_no_empty_enctype(form_id, method, action, enctype) ==
    LET m == IF method.type = "str" THEN from_string(method.value)
             ELSE [ok |-> TRUE, member |-> method.value]
        header == [form_id |-> form_id, method |-> m.member, action |-> action]
    IN  IF m.ok
        THEN [ok |-> TRUE,
              obj |-> [form_header |-> IF enctype = "" THEN header ELSE ("enctype" :> enctype) @@ header,
                       form_elements |-> <<>>]]
        ELSE [ok |-> FALSE, error |-> m.error]

\* HTML5FormData.__init__: the new object, or the ValueError of from_string
HTML5FormData(form_id, method, action, enctype) ==
    LET m == IF method.type = "str" THEN from_string(method.value)
             ELSE [ok |-> TRUE, member |-> method.value]
    IN  IF m.ok
        THEN [ok |-> TRUE,
              obj |-> [form_header |-> [form_id |-> form_id, method |-> m.member,
                                        action |-> action, enctype |-> enctype],
                       form_elements |-> <<>>]]
        ELSE [ok |-> FALSE, error |-> m.error]

\* the element put in front of the list instead of behind it
Appended_first(self, element) ==
    [self EXCEPT !.form_elements = <<element>> \o self.form_elements]

\* self.form_elements.append(element)
Appended(self, element) ==
    [self EXCEPT !.form_elements = Append(self.form_elements, element)]

\* add_input storing 0 or "" under the key of an argument that is None
add_input_filling(self, name, input_type, required, label, placeholder, value, min_length, max_length, pattern) ==
    Appended(self,
        [type |-> "input", input_type |-> input_type, name |-> name,
         required |-> required, label |-> label, placeholder |-> placeholder, value |-> value,
         min_length |-> IF min_length # None THEN min_length[1] ELSE 0,
         max_length |-> IF max_length # None THEN max_length[1] ELSE 0,
         pattern |-> IF pattern # None THEN pattern[1] ELSE ""])

add_input(self, name, input_type, required, label, placeholder, value, min_length, max_length, pattern) ==
    LET element == [type |-> "input", input_type |-> input_type, name |-> name,
                    required |-> required, label |-> label,
                    placeholder |-> placeholder, value |-> value]
        e1 == IF min_length # None THEN ("min_length" :> min_length[1]) @@ element ELSE element
        e2 == IF max_length # None THEN ("max_length" :> max_length[1]) @@ e1 ELSE e1
        e3 == IF pattern # None THEN ("pattern" :> pattern[1]) @@ e2 ELSE e2
    IN  Appended(self, e3)

\* add_textarea storing one row more than it was given
add_textarea_growing(self, name, required, label, rows, cols, placeholder, value) ==
    Appended(self,
        [type |-> "textarea", name |-> name, required |-> required, label |-> label,
         rows |-> rows + 1, cols |-> cols, placeholder |-> placeholder, value |-> value])

add_textarea(self, name, required, label, rows, cols, placeholder, value) ==
    Appended(self,
        [type |-> "textarea", name |-> name, required |-> required, label |-> label,
         rows |-> rows, cols |-> cols, placeholder |-> placeholder, value |-> value])

add_checkbox(self, name, required, label, checked) ==
    Appended(self,
        [type |-> "input", input_type |-> "checkbox", name |-> name,
         required |-> required, label |-> label, checked |-> checked])

\* add_checkbox_group with max_select raised to min_select
add_checkbox_group_clamped(self, name, options, required, min_select, max_select) ==
    Appended(self,
        [type |-> "checkbox_group", name |-> name, required |-> required,
         min_select |-> min_select,
         max_select |-> IF max_select # None /\ max_select[1] < min_select THEN Some(min_select) ELSE max_select,
         options |-> options])

add_checkbox_group(self, name, options, required, min_select, max_select) ==
    Appended(self,
        [type |-> "checkbox_group", name |-> name, required |-> required,
         min_select |-> min_select, max_select |-> max_select, options |-> options])

add_radio_group(self, name, options, required, default_value) ==
    Appended(self,
        [type |-> "radio_group", name |-> name, required |-> required,
         default_value |-> default_value, options |-> options])

add_select(self, name, options, required, multiple, size) ==
    Appended(self,
        [type |-> "select", name |-> name, required |-> required,
         multiple |-> multiple, size |-> size, options |-> options])

add_datalist(self, name, options, required, label) ==
    Appended(self,
        [type |-> "datalist", name |-> name, required |-> required,
         label |-> label, options |-> options])

add_email_input(self, name, required, label, placeholder, multiple) ==
    Appended(self,
        [type |-> "input", input_type |-> "email", name |-> name,
         required |-> required, label |-> label, placeholder |-> placeholder,
         multiple |-> multiple])

add_url_input(self, name, required, label, placeholder) ==
    Appended(self,
        [type |-> "input", input_type |-> "url", name |-> name,
         required |-> required, label |-> label, placeholder |-> placeholder])

\* HTML5FormData.to_dict
to_dict(self) ==
    [form |-> [form_header |-> self.form_header,
               form_element_list |-> self.form_elements]]

-----------------------------------------------------------------------------
(* The schema html5_form.schema.json and jsonschema.validate *)

ElementKinds == {"input", "textarea", "select", "radio_group", "checkbox_group", "checkbox", "datalist"}
OptionKinds == {"select", "radio_group", "checkbox_group", "datalist"}

\* one error of the validator: what is violated, and the path of the offending value
Required(key, path) == [message |-> [reason |-> "required", names |-> key], path |-> path]
NotInEnum(path) == [message |-> [reason |-> "enum", names |-> ""], path |-> path]

\* the keys of dict d among the sequence keys that d lacks, as Required errors at path
MissingKeys(d, keys, path) ==
    LET miss(i) == IF keys[i] \in DOMAIN d THEN <<>> ELSE <<Required(keys[i], path)>>
    IN  IF Len(keys) = 1 THEN miss(1)
        ELSE IF Len(keys) = 2 THEN miss(1) \o miss(2)
        ELSE miss(1) \o miss(2) \o miss(3)

\* the violations of form_header
HeaderErrors(header) ==
    LET path == <<"form", "form_header">>
    IN  MissingKeys(header, <<"form_id", "method", "action">>, path)
        \o (IF "method" \in DOMAIN header /\ Upper(header.method) \notin FormMethod
            THEN <<NotInEnum(Append(path, "method"))>> ELSE <<>>)

\* the violations of the element at (0-based) index i of form_element_list
ElementErrors(element, i) ==
    LET path == <<"form", "form_element_list", ToString(i)>>
        type == Get(element, "type", "")
    IN  MissingKeys(element, <<"type", "name">>, path)
        \o (IF "type" \in DOMAIN element /\ type \notin ElementKinds
            THEN <<NotInEnum(Append(path, "type"))>> ELSE <<>>)
        \o (IF type = "input" THEN MissingKeys(element, <<"input_type">>, path) ELSE <<>>)
        \o (IF type = "input" /\ "input_type" \in DOMAIN element /\ element.input_type \notin InputType
            THEN <<NotInEnum(Append(path, "input_type"))>> ELSE <<>>)
        \o (IF type \in OptionKinds THEN MissingKeys(element, <<"options">>, path) ELSE <<>>)

RECURSIVE ElementListErrors(_, _)
ElementListErrors(list, i) ==
    IF i > Len(list) THEN <<>>
    ELSE ElementErrors(list[i], i - 1) \o ElementListErrors(list, i + 1)

\* Validator.iter_errors: every violation of the document, in document order
iter_errors(doc) ==
    IF "form" \notin DOMAIN doc THEN <<Required("form", <<>>)>>
    ELSE MissingKeys(doc.form, <<"form_header", "form_element_list">>, <<"form">>)
         \o (IF "form_header" \in DOMAIN doc.form THEN HeaderErrors(doc.form.form_header) ELSE <<>>)
         \o (IF "form_element_list" \in DOMAIN doc.form
             THEN ElementListErrors(doc.form.form_element_list, 1) ELSE <<>>)

\* jsonschema.exceptions.best_match: the first of the errors highest up in the document
best_match(errors) ==
    LET shallow == {i \in DOMAIN errors : \A j \in DOMAIN errors : Len(errors[i].path) <= Len(errors[j].path)}
    IN  errors[CHOOSE i \in shallow : \A j \in shallow : i <= j]

-----------------------------------------------------------------------------
(* HTML5FormData.create_from_json, in its three stages *)

\* json.load / json.loads: the value a well-formed text denotes
json_loads(text) ==
    IF text.wellformed THEN [ok |-> TRUE, value |-> text.value]
    ELSE [ok |-> FALSE, error |-> Exception("JSONDecodeError", "")]

\* load_source with an unreadable source taken for an empty document
load_source_lenient(src) ==
    IF src.type = "dict" THEN [ok |-> TRUE, value |-> src.value]
    ELSE IF src.type = "str" /\ json_loads(src.text).ok THEN json_loads(src.text)
    ELSE [ok |-> TRUE, value |-> [other |-> "x"]]

\* lines 96-109: the value of data, or the exception raised
load_source(src) ==
    IF src.type = "dict" THEN [ok |-> TRUE, value |-> src.value]
    ELSE IF src.type = "str"
    THEN IF src.isfile
         THEN json_loads(src.text)
         ELSE IF json_loads(src.text).ok THEN json_loads(src.text)
              ELSE [ok |-> FALSE, error |-> Exception("ValueError", "Invalid JSON string provided")]
    ELSE [ok |-> FALSE, error |-> Exception("TypeError", "Source must be a file path, JSON string, or dictionary")]

\* line 115 without e.message in the text
validation_failed_no_message(e) ==
    [kind |-> "ValidationError", prefix |-> "JSON validation failed", message |-> NoMessage, path |-> e.path]

\* line 115 without e.path in the text
validation_failed_no_path(e) ==
    [kind |-> "ValidationError", prefix |-> "JSON validation failed", message |-> e.message, path |-> <<>>]

\* line 115: the ValidationError raised for the validator's error e
validation_failed(e) ==
    [kind |-> "ValidationError", prefix |-> "JSON validation failed",
     message |-> e.message, path |-> e.path]

\* lines 111-115 with the validator's error caught and dropped
validate_swallowed(doc) == [ok |-> TRUE]

\* lines 111-115: validate(instance=data, schema=...), re-raised with message and path
validate(doc) ==
    IF iter_errors(doc) = <<>> THEN [ok |-> TRUE]
    ELSE [ok |-> FALSE, error |-> validation_failed(best_match(iter_errors(doc)))]

KeyError(key) == [kind |-> "KeyError", prefix |-> key, message |-> NoMessage, path |-> <<>>]
Ok(obj) == [ok |-> TRUE, obj |-> obj]
Raise(error) == [ok |-> FALSE, error |-> error]

\* the input branch sending every checkbox to add_checkbox
load_input_by_type(inst, element) ==
    IF element.input_type = "checkbox"
    THEN Ok(add_checkbox(inst, element.name, Get(element, "required", FALSE),
                Get(element, "label", ""), Get(element, "checked", FALSE)))
    ELSE Ok(add_input(inst, element.name, element.input_type,
                Get(element, "required", FALSE), Get(element, "label", ""),
                Get(element, "placeholder", ""), Get(element, "value", ""),
                GetOpt(element, "min_length"), GetOpt(element, "max_length"),
                GetOpt(element, "pattern")))

\* lines 134-169 without the branches for email and url
load_input_generic(inst, element) ==
    IF "input_type" \notin DOMAIN element THEN Raise(KeyError("input_type"))
    ELSE IF "name" \notin DOMAIN element THEN Raise(KeyError("name"))
    ELSE IF element.input_type = "checkbox" /\ "checked" \in DOMAIN element
    THEN Ok(add_checkbox(inst, element.name, Get(element, "required", FALSE),
                Get(element, "label", ""), Get(element, "checked", FALSE)))
    ELSE IF element.input_type \notin InputType
    THEN Raise(Exception("ValueError", "not a valid InputType"))
    ELSE Ok(add_input(inst, element.name, element.input_type,
                Get(element, "required", FALSE), Get(element, "label", ""),
                Get(element, "placeholder", ""), Get(element, "value", ""),
                GetOpt(element, "min_length"), GetOpt(element, "max_length"),
                GetOpt(element, "pattern")))

\* lines 134-169: an element of type input
load_input(inst, element) ==
    IF "input_type" \notin DOMAIN element THEN Raise(KeyError("input_type"))
    ELSE IF "name" \notin DOMAIN element THEN Raise(KeyError("name"))
    ELSE IF element.input_type = "email"
    THEN Ok(add_email_input(inst, element.name, Get(element, "required", FALSE),
                Get(element, "label", ""), Get(element, "placeholder", ""),
                Get(element, "multiple", FALSE)))
    ELSE IF element.input_type = "url"
    THEN Ok(add_url_input(inst, element.name, Get(element, "required", FALSE),
                Get(element, "label", ""), Get(element, "placeholder", "")))
    ELSE IF element.input_type = "checkbox" /\ "checked" \in DOMAIN element
    THEN Ok(add_checkbox(inst, element.name, Get(element, "required", FALSE),
                Get(element, "label", ""), Get(element, "checked", FALSE)))
    ELSE IF element.input_type \notin InputType
    THEN Raise(Exception("ValueError", "not a valid InputType"))
    ELSE Ok(add_input(inst, element.name, element.input_type,
                Get(element, "required", FALSE), Get(element, "label", ""),
                Get(element, "placeholder", ""), Get(element, "value", ""),
                GetOpt(element, "min_length"), GetOpt(element, "max_length"),
                GetOpt(element, "pattern")))

\* lines 171-214: an element with options
load_options(inst, element) ==
    IF "options" \notin DOMAIN element THEN Raise(KeyError("options"))
    ELSE IF element.type = "checkbox_group"
    THEN Ok(add_checkbox_group(inst, element.name, element.options,
                Get(element, "required", FALSE), Get(element, "min_select", 0),
                Get(element, "max_select", None)))
    ELSE IF element.type = "radio_group"
    THEN Ok(add_radio_group(inst, element.name, element.options,
                Get(element, "required", FALSE), Get(element, "default_value", None)))
    ELSE IF element.type = "select"
    THEN Ok(add_select(inst, element.name, element.options,
                Get(element, "required", FALSE), Get(element, "multiple", FALSE),
                Get(element, "size", None)))
    ELSE Ok(add_datalist(inst, element.name, element.options,
                Get(element, "required", FALSE), Get(element, "label", "")))

\* lines 132-214: the body of the element loop; an element of no branch changes nothing
load_element(inst, element) ==
    IF "type" \notin DOMAIN element THEN Raise(KeyError("type"))
    ELSE IF element.type = "input" THEN load_input(inst, element)
    ELSE IF element.type \in {"textarea"} \cup OptionKinds /\ "name" \notin DOMAIN element
    THEN Raise(KeyError("name"))
    ELSE IF element.type = "textarea"
    THEN Ok(add_textarea(inst, element.name, Get(element, "required", FALSE),
                Get(element, "label", ""), Get(element, "rows", 3), Get(element, "cols", 40),
                Get(element, "placeholder", ""), Get(element, "value", "")))
    ELSE IF element.type \in OptionKinds THEN load_options(inst, element)
    ELSE Ok(inst)

\* line 131: the element loop from index i on
RECURSIVE load_elements(_, _, _)
load_elements(inst, list, i) ==
    IF i > Len(list) THEN Ok(inst)
    ELSE LET r == load_element(inst, list[i])
         IN  IF r.ok THEN load_elements(r.obj, list, i + 1) ELSE r

\* lines 117-128: the header fields read and the new instance
load_header(doc) ==
    IF "form" \notin DOMAIN doc THEN Raise(KeyError("form"))
    ELSE IF "form_header" \notin DOMAIN doc.form THEN Raise(KeyError("form_header"))
    ELSE LET header == doc.form.form_header
         IN  IF "method" \notin DOMAIN header THEN Raise(KeyError("method"))
             ELSE IF ~from_string(header.method).ok THEN Raise(from_string(header.method).error)
             ELSE IF "form_id" \notin DOMAIN header THEN Raise(KeyError("form_id"))
             ELSE IF "action" \notin DOMAIN header THEN Raise(KeyError("action"))
             ELSE LET made == HTML5FormData(header.form_id, EnumArg(from_string(header.method).member),
                                            header.action, Get(header, "enctype", ""))
                  IN  IF made.ok THEN Ok(made.obj) ELSE Raise(made.error)

\* lines 117-216: the form built from a document
deserialize(doc) ==
    LET made == load_header(doc)
    IN  IF ~made.ok THEN made
        ELSE IF "form_element_list" \notin DOMAIN doc.form THEN Raise(KeyError("form_element_list"))
        ELSE load_elements(made.obj, doc.form.form_element_list, 1)

-----------------------------------------------------------------------------
(* The templates.  A fragment of markup is a record: its tag and the values the
   f-string puts into it; an attribute that is written only under a condition is
   None when it is left out and Some(v) when it is written. *)

Attr(cond, v) == IF cond THEN Some(v) ELSE None

\* element.get(key) of a key holding an int, written whenever the key is present
AttrOfInt_present(element, key) == Attr(key \in DOMAIN element, Get(element, key, 0))

\* element.get(key) of a key holding an int, written when it is true (present, not 0)
AttrOfInt(element, key) == Attr(key \in DOMAIN element /\ element[key] # 0, Get(element, key, 0))

\* element.get(key) of a key holding a str, written when it is true (present, not "")
AttrOfStr(element, key) == Attr(key \in DOMAIN element /\ element[key] # "", Get(element, key, ""))

\* element.get(key) of a key holding an Optional int, written when it is true
AttrOfOpt(element, key) ==
    IF key \in DOMAIN element /\ element[key] # None /\ element[key][1] # 0 THEN element[key] ELSE None

\* AbstractFormTemplate: buildCSS and buildJS return "", buildHTML is abstract (its
\* body is pass, so a direct call returns None)
Abstract_buildCSS(form_data) == ""
Abstract_buildJS(form_data) == ""
Abstract_buildHTML(form_data) == None

(* bulma.py *)

Bulma_buildCSS(form_data) == "<style>.radio, .checkbox ...</style>"
Bulma_buildJS(form_data) == "<script>... .file-input ...</script>"

Bulma_icon(input_type) ==
    IF input_type = "email" THEN "fa-envelope"
    ELSE IF input_type = "password" THEN "fa-lock"
    ELSE IF input_type = "tel" THEN "fa-phone"
    ELSE IF input_type = "url" THEN "fa-link"
    ELSE IF input_type = "text" THEN "fa-user"
    ELSE ""

\* _render_input never writing checked
Bulma_render_input_unchecked(element) ==
    LET input_type == Get(element, "input_type", "text")
        required == Get(element, "required", FALSE)
        label == Get(element, "label", "")
    IN  IF input_type = "checkbox"
        THEN [tag |-> "checkbox", name |-> element.name, required |-> required,
              checked |-> FALSE, label |-> label]
        ELSE IF input_type = "file"
        THEN [tag |-> "file", label |-> label, name |-> element.name, required |-> required]
        ELSE [tag |-> "input", label |-> label, has_icons_left |-> Bulma_icon(input_type) # "",
              type |-> input_type, name |-> element.name, value |-> Get(element, "value", ""),
              placeholder |-> Get(element, "placeholder", ""), required |-> required,
              pattern |-> AttrOfStr(element, "pattern"), minlength |-> AttrOfInt(element, "min_length"),
              maxlength |-> AttrOfInt(element, "max_length"), icon |-> Bulma_icon(input_type)]

Bulma_render_input(element) ==
    LET input_type == Get(element, "input_type", "text")
        required == Get(element, "required", FALSE)
        label == Get(element, "label", "")
    IN  IF input_type = "checkbox"
        THEN [tag |-> "checkbox", name |-> element.name, required |-> required,
              checked |-> Get(element, "checked", FALSE), label |-> label]
        ELSE IF input_type = "file"
        THEN [tag |-> "file", label |-> label, name |-> element.name, required |-> required]
        ELSE [tag |-> "input", label |-> label, has_icons_left |-> Bulma_icon(input_type) # "",
              type |-> input_type, name |-> element.name, value |-> Get(element, "value", ""),
              placeholder |-> Get(element, "placeholder", ""), required |-> required,
              pattern |-> AttrOfStr(element, "pattern"), minlength |-> AttrOfInt(element, "min_length"),
              maxlength |-> AttrOfInt(element, "max_length"), icon |-> Bulma_icon(input_type)]

Bulma_render_textarea(element) ==
    [tag |-> "textarea", label |-> Get(element, "label", ""), name |-> element.name,
     placeholder |-> Get(element, "placeholder", ""), rows |-> Get(element, "rows", 3),
     required |-> Get(element, "required", FALSE), value |-> Get(element, "value", "")]

Bulma_render_select(element) ==
    [tag |-> "select", label |-> Get(element, "label", ""),
     is_multiple |-> Get(element, "multiple", FALSE), name |-> element.name,
     required |-> Get(element, "required", FALSE), multiple |-> Get(element, "multiple", FALSE),
     size |-> AttrOfOpt(element, "size"),
     first_option |-> "Select an option",
     options |-> [i \in DOMAIN element.options |->
                    [value |-> element.options[i].value, label |-> element.options[i].label]]]

Bulma_render_radio_group(element) ==
    [tag |-> "radio_group", label |-> "Subscription Plan",
     options |-> [i \in DOMAIN element.options |->
                    [name |-> element.name, value |-> element.options[i].value,
                     required |-> Get(element, "required", FALSE),
                     checked |-> Some(element.options[i].value) = Get(element, "default_value", None),
                     label |-> element.options[i].label]]]

Bulma_render_checkbox_group(element) ==
    LET min_select == Get(element, "min_select", 0)
        max_select == AttrOfOpt(element, "max_select")
    IN  [tag |-> "checkbox_group", label |-> "Interests",
         options |-> [i \in DOMAIN element.options |->
                        [name |-> element.name, value |-> element.options[i].value,
                         required |-> Get(element, "required", FALSE),
                         data_min_select |-> min_select, data_max_select |-> max_select,
                         label |-> element.options[i].label]],
         help_min |-> min_select,
         help_max |-> IF max_select # None THEN max_select ELSE Some("unlimited")]

\* the branches of the loop of buildHTML: an element of no branch appends nothing
Bulma_element(element) ==
    IF element.type = "input" THEN <<Bulma_render_input(element)>>
    ELSE IF element.type = "textarea" THEN <<Bulma_render_textarea(element)>>
    ELSE IF element.type = "select" THEN <<Bulma_render_select(element)>>
    ELSE IF element.type = "radio_group" THEN <<Bulma_render_radio_group(element)>>
    ELSE IF element.type = "checkbox_group" THEN <<Bulma_render_checkbox_group(element)>>
    ELSE <<>>

\* the loop over the elements, from index i on
RECURSIVE Bulma_elements(_, _)
Bulma_elements(elements, i) ==
    IF i > Len(elements) THEN <<>>
    ELSE Bulma_element(elements[i]) \o Bulma_elements(elements, i + 1)

Bulma_buildHTML(form_data) ==
    LET header == form_data.form_header
    IN  <<[tag |-> "form", id |-> header.form_id, method |-> header.method,
           action |-> Some(header.action), enctype |-> Attr(header.enctype # "", header.enctype)]>>
        \o Bulma_elements(form_data.form_elements, 1)
        \o <<[tag |-> "submit", class |-> "button is-primary is-fullwidth"], [tag |-> "/form"]>>

(* bootstrap5.py *)

Bootstrap5_buildCSS(form_data) == "<link href=bootstrap@5.3.3/dist/css/bootstrap.min.css>"
Bootstrap5_buildJS(form_data) == "<script src=bootstrap@5.3.3/dist/js/bootstrap.bundle.min.js>"

Bootstrap5_build_input_element(element) ==
    LET required == Get(element, "required", FALSE)
        label == Get(element, "label", "")
    IN  IF element.input_type = "checkbox"
        THEN [tag |-> "checkbox", id |-> element.name, name |-> element.name,
              required |-> required, label |-> label]
        ELSE [tag |-> "input", label |-> Attr(label # "", label), type |-> element.input_type,
              id |-> element.name, name |-> element.name,
              placeholder |-> AttrOfStr(element, "placeholder"), value |-> AttrOfStr(element, "value"),
              minlength |-> AttrOfInt(element, "min_length"), maxlength |-> AttrOfInt(element, "max_length"),
              pattern |-> AttrOfStr(element, "pattern"), required |-> required]

Bootstrap5_build_textarea_element(element) ==
    [tag |-> "textarea", label |-> AttrOfStr(element, "label"), id |-> element.name,
     name |-> element.name, rows |-> Get(element, "rows", 3), cols |-> Get(element, "cols", 40),
     required |-> Get(element, "required", FALSE),
     placeholder |-> AttrOfStr(element, "placeholder"), value |-> Get(element, "value", "")]

Bootstrap5_build_checkbox_group(element) ==
    [tag |-> "checkbox_group",
     options |-> [i \in DOMAIN element.options |->
                    [name |-> element.name, value |-> element.options[i].value,
                     id |-> <<element.name, element.options[i].value>>,
                     required |-> Get(element, "required", FALSE),
                     label |-> element.options[i].label]]]

Bootstrap5_build_radio_group(element) ==
    [tag |-> "radio_group",
     options |-> [i \in DOMAIN element.options |->
                    [name |-> element.name, value |-> element.options[i].value,
                     id |-> <<element.name, element.options[i].value>>,
                     required |-> Get(element, "required", FALSE),
                     checked |-> Some(element.options[i].value) = Get(element, "default_value", None),
                     label |-> element.options[i].label]]]

Bootstrap5_build_select_element(element) ==
    [tag |-> "select", id |-> element.name, name |-> element.name,
     required |-> Get(element, "required", FALSE), multiple |-> Get(element, "multiple", FALSE),
     size |-> AttrOfOpt(element, "size"),
     options |-> [i \in DOMAIN element.options |->
                    [value |-> element.options[i].value, label |-> element.options[i].label]]]

Bootstrap5_build_datalist_element(element) ==
    [tag |-> "datalist", label |-> AttrOfStr(element, "label"), list |-> element.name,
     id |-> element.name, name |-> element.name, required |-> Get(element, "required", FALSE),
     options |-> [i \in DOMAIN element.options |-> [value |-> element.options[i]]]]

Unsupported == [tag |-> "<!-- Unsupported element type -->"]

Bootstrap5_build_element(element) ==
    IF element.type = "input" THEN <<Bootstrap5_build_input_element(element)>>
    ELSE IF element.type = "textarea" THEN <<Bootstrap5_build_textarea_element(element)>>
    ELSE IF element.type = "checkbox_group" THEN <<Bootstrap5_build_checkbox_group(element)>>
    ELSE IF element.type = "radio_group" THEN <<Bootstrap5_build_radio_group(element)>>
    ELSE IF element.type = "select" THEN <<Bootstrap5_build_select_element(element)>>
    ELSE IF element.type = "datalist" THEN <<Bootstrap5_build_datalist_element(element)>>
    ELSE <<Unsupported>>

\* the loop putting each fragment before the ones built so far
RECURSIVE Bootstrap5_elements_reversed(_, _)
Bootstrap5_elements_reversed(elements, i) ==
    IF i > Len(elements) THEN <<>>
    ELSE Bootstrap5_elements_reversed(elements, i + 1) \o Bootstrap5_build_element(elements[i])

\* the loop over the elements, from index i on
RECURSIVE Bootstrap5_elements(_, _)
Bootstrap5_elements(elements, i) ==
    IF i > Len(elements) THEN <<>>
    ELSE Bootstrap5_build_element(elements[i]) \o Bootstrap5_elements(elements, i + 1)

Bootstrap5_buildHTML(form_data) ==
    LET header == to_dict(form_data).form.form_header
        elements == to_dict(form_data).form.form_element_list
    IN  <<[tag |-> "form", id |-> header.form_id, method |-> header.method,
           action |-> Attr(header.action # "", header.action),
           enctype |-> Attr(header.enctype # "", header.enctype)]>>
        \o Bootstrap5_elements(elements, 1)
        \o <<[tag |-> "submit", class |-> "btn btn-primary"], [tag |-> "/form"]>>

(* materialize.py *)

Materialize_buildCSS(form_data) == "<link href=materialize/1.0.0/css/materialize.min.css>"
Materialize_buildJS(form_data) == "<script src=materialize/1.0.0/js/materialize.min.js>"

Materialize_build_input_element(element) ==
    LET required == Get(element, "required", FALSE)
        label == Get(element, "label", "")
    IN  IF element.input_type = "checkbox"
        THEN [tag |-> "checkbox", name |-> element.name, required |-> required, label |-> label]
        ELSE [tag |-> "input", type |-> element.input_type, id |-> element.name,
              name |-> element.name, value |-> Get(element, "value", ""), required |-> required,
              pattern |-> AttrOfStr(element, "pattern"), minlength |-> AttrOfInt(element, "min_length"),
              maxlength |-> AttrOfInt(element, "max_length"), label |-> label]

Materialize_build_textarea_element(element) ==
    [tag |-> "textarea", id |-> element.name, name |-> element.name,
     required |-> Get(element, "required", FALSE), value |-> Get(element, "value", ""),
     label |-> Get(element, "label", "")]

Materialize_build_select_element(element) ==
    [tag |-> "select", id |-> element.name, name |-> element.name,
     required |-> Get(element, "required", FALSE), first_option |-> "Choose your option",
     options |-> [i \in DOMAIN element.options |->
                    [value |-> element.options[i].value, label |-> element.options[i].label]],
     label |-> Get(element, "label", "")]

Materialize_build_checkbox_group(element) ==
    [tag |-> "checkbox_group",
     options |-> [i \in DOMAIN element.options |->
                    [name |-> element.name, value |-> element.options[i].value,
                     required |-> Get(element, "required", FALSE),
                     label |-> element.options[i].label]]]

Materialize_build_radio_group(element) ==
    [tag |-> "radio_group",
     options |-> [i \in DOMAIN element.options |->
                    [name |-> element.name, value |-> element.options[i].value,
                     required |-> Get(element, "required", FALSE),
                     checked |-> Some(element.options[i].value) = Get(element, "default_value", None),
                     label |-> element.options[i].label]]]

Materialize_build_element(element) ==
    IF element.type = "input" THEN <<Materialize_build_input_element(element)>>
    ELSE IF element.type = "textarea" THEN <<Materialize_build_textarea_element(element)>>
    ELSE IF element.type = "select" THEN <<Materialize_build_select_element(element)>>
    ELSE IF element.type = "checkbox_group" THEN <<Materialize_build_checkbox_group(element)>>
    ELSE IF element.type = "radio_group" THEN <<Materialize_build_radio_group(element)>>
    ELSE <<Unsupported>>

\* the loop over the elements, from index i on
RECURSIVE Materialize_elements(_, _)
Materialize_elements(elements, i) ==
    IF i > Len(elements) THEN <<>>
    ELSE Materialize_build_element(elements[i]) \o Materialize_elements(elements, i + 1)

Materialize_buildHTML(form_data) ==
    LET header == to_dict(form_data).form.form_header
        elements == to_dict(form_data).form.form_element_list
    IN  <<[tag |-> "form", id |-> header.form_id, method |-> header.method,
           action |-> Attr(header.action # "", header.action),
           enctype |-> Attr(header.enctype # "", header.enctype)]>>
        \o Materialize_elements(elements, 1)
        \o <<[tag |-> "submit", class |-> "btn waves-effect waves-light"], [tag |-> "/form"]>>

(* the three skins, and what a call S.method(form_data) resolves to *)

Skins == {"Bootstrap5FormTemplate", "BulmaFormTemplate", "MaterializeFormTemplate"}

buildCSS(skin, form_data) ==
    IF skin = "Bootstrap5FormTemplate" THEN Bootstrap5_buildCSS(form_data)
    ELSE IF skin = "BulmaFormTemplate" THEN Bulma_buildCSS(form_data)
    ELSE Materialize_buildCSS(form_data)

buildJS(skin, form_data) ==
    IF skin = "Bootstrap5FormTemplate" THEN Bootstrap5_buildJS(form_data)
    ELSE IF skin = "BulmaFormTemplate" THEN Bulma_buildJS(form_data)
    ELSE Materialize_buildJS(form_data)

buildHTML(skin, form_data) ==
    IF skin = "Bootstrap5FormTemplate" THEN Bootstrap5_buildHTML(form_data)
    ELSE IF skin = "BulmaFormTemplate" THEN Bulma_buildHTML(form_data)
    ELSE Materialize_buildHTML(form_data)

\* a buildForm that remembers it was called before
buildForm_remembering(skin, form_data) ==
    <<IF rendered.called THEN "cached" ELSE "", Abstract_buildHTML(form_data), Abstract_buildJS(form_data)>>

\* AbstractFormTemplate.buildForm, a staticmethod no skin overrides: it names the
\* class AbstractFormTemplate in its three calls, whatever class it is called on
buildForm(skin, form_data) ==
    <<Abstract_buildCSS(form_data), Abstract_buildHTML(form_data), Abstract_buildJS(form_data)>>

\* rules that read label by subscript too
Subscripted_label(skin, element) == {"type", "name", "label"}

\* the keys of element the skin's rule for it reads by subscript (element["key"]);
\* every other key is read with element.get
Subscripted(skin, element) ==
    IF "type" \notin DOMAIN element THEN {"type"}
    ELSE IF element.type = "input"
    THEN IF skin = "BulmaFormTemplate" THEN {"type", "name"} ELSE {"type", "input_type", "name"}
    ELSE IF element.type = "textarea" THEN {"type", "name"}
    ELSE IF element.type \in {"select", "radio_group", "checkbox_group"} THEN {"type", "name", "options"}
    ELSE IF element.type = "datalist" /\ skin = "Bootstrap5FormTemplate" THEN {"type", "name", "options"}
    ELSE {"type"}

\* the subscripts of the skin's rule that raise KeyError for the element
KeyErrors(skin, element) ==
    (Subscripted(skin, element) \ DOMAIN element)
    \cup (IF "options" \in Subscripted(skin, element) /\ "options" \in DOMAIN element
              /\ element.type # "datalist"
          THEN UNION {{"value", "label"} \ DOMAIN element.options[i] : i \in DOMAIN element.options}
          ELSE {})

Methods == {"buildCSS", "buildHTML", "buildJS"}

\* S.method(form_data) called on the skin S itself: what it returns, or the
\* KeyError of the first element whose rule reads a key the record lacks
render(skin, method, form_data) ==
    LET elements == form_data.form_elements
        failing == {i \in DOMAIN elements : KeyErrors(skin, elements[i]) # {}}
        first == CHOOSE i \in failing : \A j \in failing : i <= j
    IN  IF method = "buildCSS" THEN Ok(buildCSS(skin, form_data))
        ELSE IF method = "buildJS" THEN Ok(buildJS(skin, form_data))
        ELSE IF failing # {} THEN Raise(KeyError(CHOOSE k \in KeyErrors(skin, elements[first]) : TRUE))
        ELSE Ok(buildHTML(skin, form_data))

\* a loop that takes the elements out of the list it walks
form_data_consumed(form_data) == [form_data EXCEPT !.form_elements = <<>>]

\* the object form_data refers to after a call S.method(form_data) or
\* S.buildForm(form_data): no rule assigns to it, to its header or to an element
form_data_after(form_data) == form_data

-----------------------------------------------------------------------------
(* The arguments the client passes *)

LowerChar(c) ==
    IF \E i \in DOMAIN UpperChars : UpperChars[i] = c
    THEN LowerChars[CHOOSE i \in DOMAIN UpperChars : UpperChars[i] = c]
    ELSE c

\* every upper/lower-case variant of the word w
CaseVariants(w) == {[i \in DOMAIN w |-> IF i \in S THEN w[i] ELSE LowerChar(w[i])] : S \in SUBSET DOMAIN w}

\* strings that are no variant of GET or POST
OtherMethods == {<<>>, <<"P", "U", "T">>, <<"p", "u", "t">>, <<"G", "E", "T", "S">>, <<"p", "o", "s">>, <<"g", "e", "t", "p", "o", "s", "t">>}

MethodStrings == CaseVariants(GET) \cup CaseVariants(POST) \cup OtherMethods
MethodArgs == {EnumArg(m) : m \in FormMethod} \cup {StrArg(s) : s \in MethodStrings}

HeaderArgs == {[action |-> "", enctype |-> ""], [action |-> "/go", enctype |-> "multipart/form-data"]}

Options == <<[value |-> "1", label |-> "One"], [value |-> "2", label |-> "Two"]>>
Countries == <<"Canada", "Japan">>

PlainInput(t) == [name |-> "a", input_type |-> t, required |-> FALSE, label |-> "", placeholder |-> "", value |-> "", min_length |-> None, max_length |-> None, pattern |-> None]
RichInput(t) == [name |-> "b", input_type |-> t, required |-> TRUE, label |-> "L", placeholder |-> "p", value |-> "v", min_length |-> Some(1), max_length |-> Some(2), pattern |-> Some("x")]
ZeroInput == [PlainInput("text") EXCEPT !.min_length = Some(0), !.max_length = Some(0), !.pattern = Some("")]
OddInput == [PlainInput("text") EXCEPT !.min_length = Some(-1), !.max_length = Some(-2)]

InputArgs ==
    {PlainInput(t) : t \in {"text", "email", "url", "checkbox", "file"}}
    \cup {RichInput(t) : t \in {"text", "email", "url", "checkbox"}}
    \cup {ZeroInput, OddInput}

TextareaArgs ==
    {[name |-> "a", required |-> FALSE, label |-> "", rows |-> 3, cols |-> 40, placeholder |-> "", value |-> ""],
     [name |-> "b", required |-> TRUE, label |-> "L", rows |-> 5, cols |-> 50, placeholder |-> "p", value |-> "v"]}

CheckboxArgs ==
    {[name |-> "a", required |-> FALSE, label |-> "", checked |-> FALSE],
     [name |-> "b", required |-> TRUE, label |-> "L", checked |-> TRUE]}

CheckboxGroupArgs ==
    {[name |-> "a", options |-> Options, required |-> FALSE, min_select |-> 0, max_select |-> None],
     [name |-> "b", options |-> Options, required |-> TRUE, min_select |-> 1, max_select |-> Some(2)],
     [name |-> "a", options |-> <<>>, required |-> FALSE, min_select |-> 2, max_select |-> Some(0)],
     [name |-> "b", options |-> Options, required |-> FALSE, min_select |-> 0, max_select |-> Some(0)]}

RadioGroupArgs ==
    {[name |-> "a", options |-> Options, required |-> FALSE, default_value |-> None],
     [name |-> "b", options |-> Options, required |-> TRUE, default_value |-> Some("1")],
     [name |-> "a", options |-> Options, required |-> FALSE, default_value |-> Some("zz")]}

SelectArgs ==
    {[name |-> "a", options |-> Options, required |-> FALSE, multiple |-> FALSE, size |-> None],
     [name |-> "b", options |-> Options, required |-> TRUE, multiple |-> TRUE, size |-> Some(2)]}

DatalistArgs ==
    {[name |-> "a", options |-> Countries, required |-> FALSE, label |-> ""],
     [name |-> "b", options |-> Countries, required |-> TRUE, label |-> "L"]}

EmailArgs ==
    {[name |-> "a", required |-> FALSE, label |-> "", placeholder |-> "", multiple |-> FALSE],
     [name |-> "b", required |-> TRUE, label |-> "L", placeholder |-> "p", multiple |-> TRUE]}

UrlArgs ==
    {[name |-> "a", required |-> FALSE, label |-> "", placeholder |-> ""],
     [name |-> "b", required |-> TRUE, label |-> "L", placeholder |-> "p"]}

-----------------------------------------------------------------------------
(* The sources the client passes to create_from_json *)

Dict(value) == [type |-> "dict", value |-> value]
Str(isfile, text) == [type |-> "str", isfile |-> isfile, text |-> text]
NotStrNorDict == [type |-> "int"]
NoSource == [type |-> "none"]

Document(header, elements) == [form |-> [form_header |-> header, form_element_list |-> elements]]

StdHeader == [form_id |-> "f", method |-> POST, action |-> "/go", enctype |-> ""]

\* headers: every method string; each required key missing; enctype missing
DocHeaders ==
    {[form_id |-> "f", method |-> m, action |-> "/go"] : m \in MethodStrings}
    \cup {StdHeader, Without(StdHeader, "form_id"), Without(StdHeader, "method"),
          Without(StdHeader, "action"), [enctype |-> ""]}

\* documents that are no form at all
Malformed ==
    {[other |-> "x"], [form |-> [form_header |-> StdHeader]], [form |-> [form_element_list |-> <<>>]]}

\* element records of documents: with the required keys only, with further keys,
\* of kind checkbox, of an unknown kind or input_type, and with a required key missing
DocElems ==
    << [type |-> "input", input_type |-> "text", name |-> "a"],
       [type |-> "input", input_type |-> "text", name |-> "b", required |-> TRUE, label |-> "L", placeholder |-> "p", value |-> "v", min_length |-> 1, max_length |-> 2, pattern |-> "x"],
       [type |-> "input", input_type |-> "email", name |-> "a"],
       [type |-> "input", input_type |-> "email", name |-> "b", value |-> "v", min_length |-> 1],
       [type |-> "input", input_type |-> "url", name |-> "a", required |-> TRUE, label |-> "L", placeholder |-> "p"],
       [type |-> "input", input_type |-> "checkbox", name |-> "a"],
       [type |-> "input", input_type |-> "checkbox", name |-> "b", checked |-> TRUE],
       [type |-> "input", input_type |-> "week", name |-> "a", value |-> "v"],
       [type |-> "textarea", name |-> "a"],
       [type |-> "textarea", name |-> "b", rows |-> 5, cols |-> 50, label |-> "L"],
       [type |-> "select", name |-> "a", options |-> Options],
       [type |-> "select", name |-> "b", options |-> Options, label |-> "L", size |-> None],
       [type |-> "radio_group", name |-> "a", options |-> Options],
       [type |-> "radio_group", name |-> "b", options |-> Options, default_value |-> Some("1")],
       [type |-> "checkbox_group", name |-> "a", options |-> Options],
       [type |-> "checkbox_group", name |-> "b", options |-> Options, min_select |-> 1, max_select |-> None],
       [type |-> "datalist", name |-> "a", options |-> Countries],
       [type |-> "checkbox", name |-> "a"],
       [type |-> "checkbox", name |-> "b", checked |-> TRUE, label |-> "L"],
       [type |-> "fieldset", name |-> "a"],
       [type |-> "input", input_type |-> "bogus", name |-> "a"],
       [type |-> "input", name |-> "a"],
       [type |-> "textarea"],
       [type |-> "select", name |-> "a"],
       [name |-> "a"],
       [type |-> "input", input_type |-> "url", name |-> "a"],
       [type |-> "input", input_type |-> "checkbox", name |-> "b", checked |-> TRUE, value |-> "v"] >>

\* the element lists of length n over DocElems
ElementLists(n) == {[j \in 1..n |-> DocElems[idx[j]]] : idx \in [1..n -> DOMAIN DocElems]}

\* JSON texts: not JSON at all, or the text of a document
Garbage == [wellformed |-> FALSE]
TextOf(value) == [wellformed |-> TRUE, value |-> value]

-----------------------------------------------------------------------------
(* The state machine: a client that builds a form and loads it back, or loads a
   document it was given *)

\* a reference to the object at address a of the heap; no object has address 0
Ref(a) == [ref |-> a]
NoRef == Ref(0)
NoNames == [F |-> NoRef, options |-> NoRef, r |-> NoForm, taken_at |-> 0, G |-> NoForm]

\* the schema file: as shipped, removed, or holding text that is no JSON
SchemaFile == [exists |-> TRUE, wellformed |-> TRUE]
Files == {SchemaFile, [exists |-> FALSE, wellformed |-> FALSE], [exists |-> TRUE, wellformed |-> FALSE]}

Init ==
    /\ form = NoForm
    /\ ctor = NoCall
    /\ pc = "idle"
    /\ source = NoSource
    /\ data = NoForm
    /\ instance = NoForm
    /\ err = NoError
    /\ schema = None
    /\ rendered = NoCall
    /\ fragment = NoCall
    /\ again = NoCall
    /\ disk = SchemaFile
    /\ loads = <<>>
    /\ heap = <<>>
    /\ names = NoNames

\* no render call was made yet
Unrendered == rendered = NoCall /\ fragment = NoCall /\ again = NoCall

Building == form # NoForm /\ pc = "idle" /\ Unrendered /\ Len(form.form_elements) < MaxElems

\* F = HTML5FormData("f", method, action, enctype), method drawn from methods
Construct(methods) ==
    /\ form = NoForm /\ ctor = NoCall /\ pc = "idle"
    /\ \E method \in methods, h \in HeaderArgs :
          LET made == HTML5FormData("f", method, h.action, h.enctype)
          IN  IF made.ok
              THEN form' = made.obj /\ ctor' = [called |-> TRUE, method |-> method, error |-> NoError]
              ELSE ctor' = [called |-> TRUE, method |-> method, error |-> made.error] /\ UNCHANGED form
    /\ UNCHANGED <<pc, source, data, instance, err, schema, rendered, fragment, again, disk, loads, heap, names>>

\* the constructor called with the default method or with a str
construct == Construct({EnumArg(POST), StrArg(<<"g", "e", "t">>)})

\* the constructor called with either member of FormMethod or with any str
construct_any_method == Construct(MethodArgs)

\* the form a client is about to render, made with the default method
construct_to_render == Construct({EnumArg(POST)})

call_add_input ==
    /\ Building
    /\ \E a \in InputArgs :
          form' = add_input(form, a.name, a.input_type, a.required, a.label, a.placeholder, a.value, a.min_length, a.max_length, a.pattern)
    /\ UNCHANGED <<ctor, pc, source, data, instance, err, schema, rendered, fragment, again, disk, loads, heap, names>>

call_add_textarea ==
    /\ Building
    /\ \E a \in TextareaArgs :
          form' = add_textarea(form, a.name, a.required, a.label, a.rows, a.cols, a.placeholder, a.value)
    /\ UNCHANGED <<ctor, pc, source, data, instance, err, schema, rendered, fragment, again, disk, loads, heap, names>>

call_add_checkbox ==
    /\ Building
    /\ \E a \in CheckboxArgs : form' = add_checkbox(form, a.name, a.required, a.label, a.checked)
    /\ UNCHANGED <<ctor, pc, source, data, instance, err, schema, rendered, fragment, again, disk, loads, heap, names>>

call_add_checkbox_group ==
    /\ Building
    /\ \E a \in CheckboxGroupArgs :
          form' = add_checkbox_group(form, a.name, a.options, a.required, a.min_select, a.max_select)
    /\ UNCHANGED <<ctor, pc, source, data, instance, err, schema, rendered, fragment, again, disk, loads, heap, names>>

call_add_radio_group ==
    /\ Building
    /\ \E a \in RadioGroupArgs :
          form' = add_radio_group(form, a.name, a.options, a.required, a.default_value)
    /\ UNCHANGED <<ctor, pc, source, data, instance, err, schema, rendered, fragment, again, disk, loads, heap, names>>

call_add_select ==
    /\ Building
    /\ \E a \in SelectArgs : form' = add_select(form, a.name, a.options, a.required, a.multiple, a.size)
    /\ UNCHANGED <<ctor, pc, source, data, instance, err, schema, rendered, fragment, again, disk, loads, heap, names>>

call_add_datalist ==
    /\ Building
    /\ \E a \in DatalistArgs : form' = add_datalist(form, a.name, a.options, a.required, a.label)
    /\ UNCHANGED <<ctor, pc, source, data, instance, err, schema, rendered, fragment, again, disk, loads, heap, names>>

call_add_email_input ==
    /\ Building
    /\ \E a \in EmailArgs :
          form' = add_email_input(form, a.name, a.required, a.label, a.placeholder, a.multiple)
    /\ UNCHANGED <<ctor, pc, source, data, instance, err, schema, rendered, fragment, again, disk, loads, heap, names>>

call_add_url_input ==
    /\ Building
    /\ \E a \in UrlArgs : form' = add_url_input(form, a.name, a.required, a.label, a.placeholder)
    /\ UNCHANGED <<ctor, pc, source, data, instance, err, schema, rendered, fragment, again, disk, loads, heap, names>>

\* create_from_json(src), lines 96-109: data, or the exception of a source that cannot be read
Enter(src) ==
    /\ source' = src
    /\ IF load_source(src).ok
       THEN pc' = "loaded" /\ data' = load_source(src).value /\ UNCHANGED err
       ELSE pc' = "raised" /\ err' = load_source(src).error /\ UNCHANGED data
    /\ UNCHANGED <<form, ctor, instance, schema, rendered, fragment, again, disk, loads, heap, names>>

\* create_from_json(F.to_dict())
load_back ==
    /\ form # NoForm /\ pc = "idle" /\ Unrendered
    /\ Enter(Dict(to_dict(form)))

\* create_from_json of a dictionary the client was given
load_document ==
    /\ form = NoForm /\ ctor = NoCall /\ pc = "idle"
    /\ \/ \E h \in DocHeaders : Enter(Dict(Document(h, <<>>)))
       \/ \E n \in 1..MaxElems : \E es \in ElementLists(n) : Enter(Dict(Document(StdHeader, es)))
       \/ \E d \in Malformed : Enter(Dict(d))

\* create_from_json of a str (a JSON text, or the path of a file that holds one), or
\* of a value that is neither str nor dict
load_text ==
    /\ form = NoForm /\ ctor = NoCall /\ pc = "idle"
    /\ \/ \E isfile \in BOOLEAN, h \in {StdHeader, Without(StdHeader, "form_id")} :
             Enter(Str(isfile, TextOf(Document(h, <<DocElems[1]>>))))
       \/ \E isfile \in BOOLEAN : Enter(Str(isfile, Garbage))
       \/ Enter(NotStrNorDict)

\* lines 55-56: open(schema_path, 'r') and json.load(f)
load_schema(file) ==
    IF ~file.exists THEN Raise(Exception("FileNotFoundError", "html5_form.schema.json"))
    ELSE IF ~file.wellformed THEN Raise(Exception("JSONDecodeError", "html5_form.schema.json"))
    ELSE Ok("html5_form.schema.json")

\* _get_schema opening the file at every call
get_schema_uncached(cached, file) == [read |-> TRUE, outcome |-> load_schema(file)]

\* HTML5FormData._get_schema: whether the file is opened, and the schema returned
\* or the exception of the load
get_schema(cached, file) ==
    IF cached = None
    THEN [read |-> TRUE, outcome |-> load_schema(file)]
    ELSE [read |-> FALSE, outcome |-> Ok(cached[1])]

\* lines 111-115: the schema is fetched first, being an argument of validate
create_from_json_validate ==
    /\ pc = "loaded"
    /\ LET got == get_schema(schema, disk)
       IN  /\ loads' = Append(loads, [read |-> got.read, schema |-> IF got.outcome.ok THEN Some(got.outcome.obj) ELSE None])
           /\ IF ~got.outcome.ok
              THEN pc' = "raised" /\ err' = got.outcome.error /\ UNCHANGED schema
              ELSE /\ schema' = Some(got.outcome.obj)
                   /\ IF validate(data).ok
                      THEN pc' = "validated" /\ UNCHANGED err
                      ELSE pc' = "raised" /\ err' = validate(data).error
    /\ UNCHANGED <<form, ctor, source, data, instance, rendered, fragment, again, disk, heap, names>>

\* lines 117-216
create_from_json_return ==
    /\ pc = "validated"
    /\ IF deserialize(data).ok
       THEN pc' = "returned" /\ instance' = deserialize(data).obj /\ UNCHANGED err
       ELSE pc' = "raised" /\ err' = deserialize(data).error /\ UNCHANGED instance
    /\ UNCHANGED <<form, ctor, source, data, schema, rendered, fragment, again, disk, loads, heap, names>>

\* css, html, js = S.buildForm(F)
call_buildForm ==
    /\ form # NoForm /\ pc = "idle" /\ Unrendered
    /\ \E skin \in Skins :
          rendered' = [called |-> TRUE, skin |-> skin, result |-> buildForm(skin, form)]
    /\ form' = form_data_after(form)
    /\ UNCHANGED <<ctor, pc, source, data, instance, err, schema, fragment, again, disk, loads, heap, names>>

\* S.buildCSS(F), S.buildHTML(F) or S.buildJS(F) of any skin S on a form not yet
\* rendered, or S.buildHTML(F) between two calls of S.buildForm(F)
call_render ==
    /\ form # NoForm /\ pc = "idle" /\ fragment = NoCall /\ again = NoCall
    /\ \E skin \in Skins, method \in Methods :
          /\ rendered # NoCall => skin = rendered.skin /\ method = "buildHTML"
          /\ fragment' = [called |-> TRUE, skin |-> skin, method |-> method, before |-> form,
                       outcome |-> render(skin, method, form)]
    /\ form' = form_data_after(form)
    /\ UNCHANGED <<ctor, pc, source, data, instance, err, schema, rendered, again, disk, loads, heap, names>>

\* S.buildForm(F) once more, for the skin S of the first call
call_buildForm_again ==
    /\ form # NoForm /\ pc = "idle" /\ rendered # NoCall /\ again = NoCall
    /\ again' = [called |-> TRUE, skin |-> rendered.skin, result |-> buildForm(rendered.skin, form)]
    /\ form' = form_data_after(form)
    /\ UNCHANGED <<ctor, pc, source, data, instance, err, schema, rendered, fragment, disk, loads, heap, names>>

\* the client builds a form with the constructor and add_*, then loads it back
Next ==
    \/ construct
    \/ call_add_input \/ call_add_textarea \/ call_add_checkbox
    \/ call_add_checkbox_group \/ call_add_radio_group \/ call_add_select
    \/ call_add_datalist \/ call_add_email_input \/ call_add_url_input
    \/ load_back
    \/ call_buildForm
    \/ create_from_json_validate
    \/ create_from_json_return

Spec == Init /\ [][Next]_vars

\* the client builds a form with the constructor and add_*, then renders it
NextRender ==
    \/ construct_to_render
    \/ call_add_input \/ call_add_textarea \/ call_add_checkbox
    \/ call_add_checkbox_group \/ call_add_radio_group \/ call_add_select
    \/ call_add_datalist \/ call_add_email_input \/ call_add_url_input
    \/ call_render
    \/ call_buildForm
    \/ call_buildForm_again

SpecRender == Init /\ [][NextRender]_vars

\* the client calls the constructor, or loads a source it was given
NextDoc ==
    \/ construct_any_method
    \/ load_document
    \/ load_text
    \/ create_from_json_validate
    \/ create_from_json_return

SpecDoc == Init /\ [][NextDoc]_vars

\* create_from_json of a source the client was given, one call after another
call_create_from_json ==
    /\ form = NoForm /\ ctor = NoCall /\ pc = "idle" /\ Len(loads) < MaxCalls
    /\ \/ Enter(Dict(Document(StdHeader, <<DocElems[1]>>)))
       \/ Enter(Dict(Document(Without(StdHeader, "form_id"), <<>>)))
       \/ Enter(NotStrNorDict)

\* the call has ended and the client goes on
create_from_json_ended ==
    /\ form = NoForm /\ ctor = NoCall /\ pc \in {"returned", "raised"}
    /\ pc' = "idle" /\ source' = NoSource /\ data' = NoForm /\ instance' = NoForm /\ err' = NoError
    /\ UNCHANGED <<form, ctor, schema, rendered, fragment, again, disk, loads, heap, names>>

\* between two calls the schema file is removed, overwritten or restored
schema_file_changes ==
    /\ form = NoForm /\ ctor = NoCall /\ pc = "idle"
    /\ \E file \in Files \ {disk} : disk' = file
    /\ UNCHANGED <<form, ctor, pc, source, data, instance, err, schema, rendered, fragment, again, loads, heap, names>>

\* a process that calls create_from_json several times
NextSchema ==
    \/ call_create_from_json
    \/ create_from_json_validate
    \/ create_from_json_return
    \/ create_from_json_ended
    \/ schema_file_changes

SpecSchema == Init /\ [][NextSchema]_vars

-----------------------------------------------------------------------------
(* The claims *)

\* the create_from_json call has ended, by a return or by an exception
Ended == pc \in {"returned", "raised"}

\* the document the call read fails validation
Invalid == data # NoForm /\ iter_errors(data) # <<>>

\* the word w is in the text of the exception e: named by the message, or a step of the path
Mentions(e, w) == e.message.names = w \/ \E i \in DOMAIN e.path : e.path[i] = w

\* C1: create_from_json(F.to_dict()) returns a form whose form_header and
\* form_elements equal F's, for every F made by the constructor and add_*
C1_RoundTripFromModel ==
    (form # NoForm /\ Ended) =>
        /\ pc = "returned"
        /\ instance.form_header = form.form_header
        /\ instance.form_elements = form.form_elements

\* the element types the loop of create_from_json has a branch for
LoopKinds == {"input", "textarea", "checkbox_group", "radio_group", "select", "datalist"}

\* C2: for a document D that passes validation, create_from_json(D).to_dict() has
\* one record per record of D, with every key of D's record and the same value,
\* and the header values of D apart from the case of method (stated here for the
\* documents whose every element is of a type the loop has a branch for)
C2_RoundTripFromDocument ==
    (form = NoForm /\ pc = "returned"
       /\ \A i \in DOMAIN data.form.form_element_list : data.form.form_element_list[i].type \in LoopKinds) =>
        LET D == data.form
            R == to_dict(instance).form
        IN  /\ \A k \in DOMAIN D.form_header \ {"method"} :
                  k \in DOMAIN R.form_header /\ R.form_header[k] = D.form_header[k]
            /\ R.form_header.method = Upper(D.form_header.method)
            /\ Len(R.form_element_list) = Len(D.form_element_list)
            /\ \A i \in DOMAIN D.form_element_list : \A k \in DOMAIN D.form_element_list[i] :
                  /\ k \in DOMAIN R.form_element_list[i]
                  /\ R.form_element_list[i][k] = D.form_element_list[i][k]

\* the canonical method of a case variant of "get" or "post"
Canonical(s) == IF s \in CaseVariants(GET) THEN GET ELSE POST
IsVariant(s) == s \in CaseVariants(GET) \cup CaseVariants(POST)

\* a loaded document whose only possible fault is the method string
OnlyMethodInDoubt ==
    /\ Ended /\ data # NoForm /\ "form" \in DOMAIN data
    /\ DOMAIN data.form = {"form_header", "form_element_list"}
    /\ {"form_id", "method", "action"} \subseteq DOMAIN data.form.form_header
    /\ data.form.form_element_list = <<>>

\* C3: every case variant of "get"/"post" given to the constructor or found in a
\* loaded document is stored and serialized as exactly "GET" or "POST"; any other
\* string is rejected: ValueError from the constructor, ValidationError from
\* create_from_json, and no form is produced
C3_MethodCanonical ==
    /\ (ctor.called /\ ctor.method.type = "str") =>
          IF IsVariant(ctor.method.value)
          THEN /\ ctor.error = NoError
               /\ form.form_header.method = Canonical(ctor.method.value)
               /\ to_dict(form).form.form_header.method = Canonical(ctor.method.value)
          ELSE ctor.error.kind = "ValueError" /\ form = NoForm
    /\ OnlyMethodInDoubt =>
          IF IsVariant(data.form.form_header.method)
          THEN /\ pc = "returned"
               /\ instance.form_header.method = Canonical(data.form.form_header.method)
               /\ to_dict(instance).form.form_header.method = Canonical(data.form.form_header.method)
          ELSE pc = "raised" /\ err.kind = "ValidationError" /\ instance = NoForm

C3_Witness ==
    /\ pc = "returned" /\ source.type = "dict"
    /\ data.form.form_header.method = <<"g", "E", "t">>
    /\ to_dict(instance).form.form_header.method = GET

\* C4: the document is validated before any header field is read and before a
\* form is constructed or filled: the stages after validation are entered only
\* with a document that has no violation, and a document that fails validation
\* ends in a ValidationError with no form constructed
C4_ValidationFirst ==
    /\ pc \in {"validated", "returned"} => data # NoForm /\ iter_errors(data) = <<>>
    /\ instance # NoForm => pc = "returned"
    /\ (Ended /\ Invalid) => pc = "raised" /\ err.kind = "ValidationError" /\ instance = NoForm

C4_Witness ==
    /\ pc = "raised" /\ err.kind = "ValidationError" /\ instance = NoForm
    /\ "form" \in DOMAIN data /\ "form_element_list" \in DOMAIN data.form
    /\ Len(data.form.form_element_list) = 2
    /\ ElementErrors(data.form.form_element_list[1], 0) = <<>>
    /\ ElementErrors(data.form.form_element_list[2], 1) # <<>>

\* C5: for every document that passes the validator, create_from_json returns
\* without raising a form with exactly one record per entry of
\* form_element_list, in the same order
C5_TotalOnValidated ==
    (Ended /\ data # NoForm /\ iter_errors(data) = <<>>) =>
        /\ pc = "returned"
        /\ Len(instance.form_elements) = Len(data.form.form_element_list)
        /\ \A i \in DOMAIN data.form.form_element_list :
              instance.form_elements[i].name = data.form.form_element_list[i].name

\* C6: when the element loop meets an element whose type it does not recognise,
\* the call ends in an error; it does not skip the element and return a form
C6_UnrecognizedKindIsError ==
    (pc = "returned" /\ data # NoForm) =>
        \A i \in DOMAIN data.form.form_element_list :
            data.form.form_element_list[i].type \in LoopKinds

BogusInputs(doc) ==
    {i \in DOMAIN doc.form.form_element_list :
        LET e == doc.form.form_element_list[i]
        IN  "type" \in DOMAIN e /\ e.type = "input" /\ "input_type" \in DOMAIN e
            /\ e.input_type \notin InputType}

ValueErrors == {"ValueError", "JSONDecodeError"}

\* C9: a str that is no JSON raises a ValueError that is no ValidationError, a
\* source that is neither str nor dict raises TypeError, in both cases without
\* validation (the schema is not even fetched) or deserialization; a schema
\* violation raises ValidationError; none of these errors is swallowed
C9_ErrorKinds ==
    /\ (source.type = "str" /\ ~source.text.wellformed) =>
          /\ pc = "raised" /\ err.kind \in ValueErrors /\ err.kind # "ValidationError"
          /\ schema = None /\ data = NoForm /\ instance = NoForm
    /\ source.type = "int" =>
          /\ pc = "raised" /\ err.kind = "TypeError"
          /\ schema = None /\ data = NoForm /\ instance = NoForm
    /\ (Ended /\ Invalid) => pc = "raised" /\ err.kind = "ValidationError"

C9_Witness ==
    /\ source.type = "str" /\ ~source.isfile /\ ~source.text.wellformed
    /\ pc = "raised" /\ err.kind = "ValueError"

\* C10: S.buildForm(F) returns the skin's own fragments, in the order
\* (S.buildCSS(F), S.buildHTML(F), S.buildJS(F))
C10_SkinDispatch ==
    rendered.called =>
        rendered.result = <<buildCSS(rendered.skin, form), buildHTML(rendered.skin, form), buildJS(rendered.skin, form)>>
\* the element types the skin's buildHTML has a rendering rule for
Rules(skin) ==
    IF skin = "Bootstrap5FormTemplate"
    THEN {"input", "textarea", "checkbox_group", "radio_group", "select", "datalist"}
    ELSE {"input", "textarea", "select", "radio_group", "checkbox_group"}

\* a call of S.buildHTML(F) has returned
MarkupBuilt == fragment.called /\ fragment.method = "buildHTML" /\ fragment.outcome.ok

\* C11: when a skin has no rendering rule for an element's kind, buildHTML does
\* not fail and its markup has the placeholder comment at that element's
\* position: one fragment per element, the placeholder for each such element
C11_PlaceholderForUnsupported ==
    (fragment.called /\ fragment.method = "buildHTML") =>
        /\ fragment.outcome.ok
        /\ LET markup == fragment.outcome.obj
               elements == fragment.before.form_elements
           IN  /\ Len(markup) = Len(elements) + 3
               /\ \A i \in DOMAIN elements :
                     elements[i].type \notin Rules(fragment.skin) => markup[i + 1] = Unsupported

\* C12: for every form built by the constructor and add_* (any kinds, out-of-range
\* or null optional values included) and every skin, buildCSS, buildHTML, buildJS
\* and buildForm return without raising
C12_RenderingTotal ==
    /\ fragment.called => fragment.outcome.ok
    /\ rendered.called => Len(rendered.result) = 3
    /\ again.called => Len(again.result) = 3

C12_Witness ==
    /\ MarkupBuilt /\ Len(fragment.before.form_elements) = 2
    /\ LET e1 == fragment.before.form_elements[1]
           e2 == fragment.before.form_elements[2]
       IN  /\ e1.type = "select" /\ e1.size = None
           /\ e2.type = "input" /\ "max_length" \in DOMAIN e2 /\ e2.max_length < 0

\* what the dispatch of the skin's buildHTML adds to the markup for one element
Fragment(skin, element) ==
    IF skin = "Bootstrap5FormTemplate" THEN Bootstrap5_build_element(element)
    ELSE IF skin = "BulmaFormTemplate" THEN Bulma_element(element)
    ELSE Materialize_build_element(element)

\* C13: the markup of buildHTML is the opening form tag, the element fragments in
\* the insertion order of form_elements, exactly one submit control after the
\* last of them, and the closing form tag; also for a form with no elements
C13_RenderingOrder ==
    MarkupBuilt =>
        LET markup == fragment.outcome.obj
            elements == fragment.before.form_elements
            n == Len(markup) - 3
        IN  /\ n >= 0
            /\ markup[1].tag = "form"
            /\ markup[Len(markup) - 1].tag = "submit"
            /\ markup[Len(markup)].tag = "/form"
            /\ Cardinality({k \in DOMAIN markup : markup[k].tag = "submit"}) = 1
            /\ n = Cardinality({i \in DOMAIN elements : Fragment(fragment.skin, elements[i]) # <<>>})
            /\ \E idx \in [1..n -> DOMAIN elements] :
                  /\ \A j, k \in 1..n : j < k => idx[j] < idx[k]
                  /\ \A k \in 1..n : <<markup[k + 1]>> = Fragment(fragment.skin, elements[idx[k]])

C13_Witness ==
    /\ MarkupBuilt /\ fragment.skin = "Bootstrap5FormTemplate"
    /\ Len(fragment.before.form_elements) = 2
    /\ fragment.before.form_elements[1].type = "datalist"
    /\ fragment.before.form_elements[2].type = "textarea"
    /\ fragment.outcome.obj[2].tag = "datalist" /\ fragment.outcome.obj[3].tag = "textarea"

Holds(record, a, keys) == \A k \in keys : k \in DOMAIN record /\ record[k] = a[k]

\* the record holds the Optional argument of add_input: no key for None, else the value
HoldsOpt(record, a, k) == IF a[k] = None THEN k \notin DOMAIN record ELSE k \in DOMAIN record /\ record[k] = a[k][1]

\* the record is what some call of its add_* operation was given
AsGiven(record) ==
    IF record.type = "input" /\ "checked" \in DOMAIN record
    THEN \E a \in CheckboxArgs : Holds(record, a, {"name", "required", "label", "checked"})
    ELSE IF record.type = "input" /\ "value" \in DOMAIN record
    THEN \E a \in InputArgs :
            /\ Holds(record, a, {"name", "input_type", "required", "label", "placeholder", "value"})
            /\ HoldsOpt(record, a, "min_length") /\ HoldsOpt(record, a, "max_length")
            /\ HoldsOpt(record, a, "pattern")
    ELSE IF record.type = "input" /\ "multiple" \in DOMAIN record
    THEN \E a \in EmailArgs : Holds(record, a, {"name", "required", "label", "placeholder", "multiple"})
    ELSE IF record.type = "input"
    THEN \E a \in UrlArgs : Holds(record, a, {"name", "required", "label", "placeholder"})
    ELSE IF record.type = "textarea"
    THEN \E a \in TextareaArgs : Holds(record, a, {"name", "required", "label", "rows", "cols", "placeholder", "value"})
    ELSE IF record.type = "checkbox_group"
    THEN \E a \in CheckboxGroupArgs : Holds(record, a, {"name", "options", "required", "min_select", "max_select"})
    ELSE IF record.type = "radio_group"
    THEN \E a \in RadioGroupArgs : Holds(record, a, {"name", "options", "required", "default_value"})
    ELSE IF record.type = "select"
    THEN \E a \in SelectArgs : Holds(record, a, {"name", "options", "required", "multiple", "size"})
    ELSE \E a \in DatalistArgs : Holds(record, a, {"name", "options", "required", "label"})

\* C16: every add_* call with well-typed arguments returns having appended one
\* record that holds the arguments unchanged, out-of-range ones included (a
\* negative min_length, max_length below min_length, max_select below
\* min_select, a default_value that is no option, a name already in the form)
C16_NoOutputSideValidation ==
    /\ [][(form # NoForm /\ form' # form) =>
             /\ form'.form_header = form.form_header
             /\ Len(form'.form_elements) = Len(form.form_elements) + 1
             /\ SubSeq(form'.form_elements, 1, Len(form.form_elements)) = form.form_elements]_vars
    /\ [](form # NoForm => \A i \in DOMAIN form.form_elements : AsGiven(form.form_elements[i]))

C16_Witness ==
    /\ form # NoForm /\ Len(form.form_elements) = 2
    /\ LET e1 == form.form_elements[1]
           e2 == form.form_elements[2]
       IN  /\ e1.type = "input" /\ "min_length" \in DOMAIN e1 /\ e1.min_length = -1 /\ e1.max_length = -2
           /\ e2.type = "checkbox_group" /\ e2.min_select = 2 /\ e2.max_select = Some(0)
           /\ e2.name = e1.name

\* the document d is {"form": {"form_header": H, "form_element_list": L}} with H of
\* exactly the four header keys, method GET or POST, and a kind and a name in every record of L
CanonicalShape(d) ==
    /\ DOMAIN d = {"form"}
    /\ DOMAIN d.form = {"form_header", "form_element_list"}
    /\ DOMAIN d.form.form_header = {"form_id", "method", "action", "enctype"}
    /\ d.form.form_header.method \in {<<"G", "E", "T">>, <<"P", "O", "S", "T">>}
    /\ \A i \in DOMAIN d.form.form_element_list :
          LET record == d.form.form_element_list[i]
          IN  /\ {"type", "name"} \subseteq DOMAIN record
              /\ record.type \in {"input", "textarea", "select", "radio_group", "checkbox_group", "checkbox", "datalist"}

C18_CommonAttributes ==
    form # NoForm =>
        \A i \in DOMAIN form.form_elements :
            {"name", "required", "label"} \subseteq DOMAIN form.form_elements[i]

\* the form HTML5FormData("f", method=FormMethod.POST) with no add_* call made
ConstructedWithPOST ==
    ctor.called /\ ctor.method = EnumArg(POST) /\ form # NoForm /\ Len(form.form_elements) = 0

C20_DocstringErrors ==
    (source.type = "str" /\ ~source.isfile /\ ~source.text.wellformed) =>
        pc = "raised" /\ err.kind \in {"FileNotFoundError", "JSONDecodeError"}

\* the record is an input of input_type checkbox
IsCheckboxInput(record) ==
    /\ {"type", "input_type"} \subseteq DOMAIN record
    /\ record.type = "input" /\ record.input_type = "checkbox"

\* C21: create_from_json passes an input of input_type checkbox to add_checkbox
\* (a record with checked, without value and placeholder) exactly when the
\* source record has a checked key, and to add_input otherwise (a record with
\* value and placeholder, without checked); so the records of add_checkbox and
\* of add_input(InputType.CHECKBOX) come back equal from a round trip
C21_CheckboxRouting ==
    (form # NoForm /\ pc = "returned") =>
        /\ Len(instance.form_elements) = Len(form.form_elements)
        /\ \A i \in DOMAIN form.form_elements :
              LET given == data.form.form_element_list[i]
                  built == instance.form_elements[i]
              IN  IsCheckboxInput(given) =>
                      /\ "checked" \in DOMAIN given =>
                             /\ "checked" \in DOMAIN built
                             /\ {"value", "placeholder"} \cap DOMAIN built = {}
                      /\ "checked" \notin DOMAIN given =>
                             /\ {"value", "placeholder"} \subseteq DOMAIN built
                             /\ "checked" \notin DOMAIN built
                      /\ built = form.form_elements[i]

C21_Witness ==
    /\ form # NoForm /\ pc = "returned" /\ Len(form.form_elements) = 2
    /\ IsCheckboxInput(form.form_elements[1]) /\ "checked" \in DOMAIN form.form_elements[1]
    /\ IsCheckboxInput(form.form_elements[2]) /\ "value" \in DOMAIN form.form_elements[2]
    /\ instance.form_elements = form.form_elements

\* the keys a record of its kind must have
RequiredKeys(record) ==
    IF record.type = "input" THEN {"type", "input_type", "name"}
    ELSE IF record.type \in {"select", "radio_group", "checkbox_group", "datalist"} THEN {"type", "name", "options"}
    ELSE {"type", "name"}

\* a fresh form, to call one add_* operation on
Fresh == [form_header |-> [form_id |-> "f", method |-> POST, action |-> "", enctype |-> ""], form_elements |-> <<>>]

\* the record the add_* operation matching the source record appends when it is
\* called with the required arguments only, every other parameter at the default
\* of its signature
RequiredOnly(record) ==
    LET name == record.name
        made == IF record.type = "input"
                THEN IF record.input_type = "email" THEN add_email_input(Fresh, name, FALSE, "", "", FALSE)
                     ELSE IF record.input_type = "url" THEN add_url_input(Fresh, name, FALSE, "", "")
                     ELSE add_input(Fresh, name, record.input_type, FALSE, "", "", "", None, None, None)
                ELSE IF record.type = "textarea" THEN add_textarea(Fresh, name, FALSE, "", 3, 40, "", "")
                ELSE IF record.type = "checkbox" THEN add_checkbox(Fresh, name, FALSE, "", FALSE)
                ELSE IF record.type = "checkbox_group" THEN add_checkbox_group(Fresh, name, record.options, FALSE, 0, None)
                ELSE IF record.type = "radio_group" THEN add_radio_group(Fresh, name, record.options, FALSE, None)
                ELSE IF record.type = "select" THEN add_select(Fresh, name, record.options, FALSE, FALSE, None)
                ELSE add_datalist(Fresh, name, record.options, FALSE, "")
    IN  made.form_elements[1]

\* the loaded document has returned a form and each of its records has the required keys only
OnlyRequiredKeys ==
    /\ form = NoForm /\ pc = "returned"
    /\ \A i \in DOMAIN data.form.form_element_list :
          DOMAIN data.form.form_element_list[i] = RequiredKeys(data.form.form_element_list[i])

\* C22: for every element kind, create_from_json of a validated record with only
\* its required keys appends the record the matching add_* operation appends
\* when called with those arguments only
C22_DefaultFilling ==
    OnlyRequiredKeys =>
        /\ Len(instance.form_elements) = Len(data.form.form_element_list)
        /\ \A i \in DOMAIN data.form.form_element_list :
              instance.form_elements[i] = RequiredOnly(data.form.form_element_list[i])

\* C23: a freshly constructed form has zero elements; no step removes or
\* reorders records or changes the header; a step that changes the form is an
\* add_* that lengthens form_elements by exactly one, the new record last and
\* the records before it unchanged
C23_AppendOnly ==
    /\ [][(form = NoForm /\ form' # NoForm) => form'.form_elements = <<>>]_vars
    /\ [][form # NoForm =>
             /\ form' # NoForm
             /\ form'.form_header = form.form_header
             /\ Len(form'.form_elements) \in {Len(form.form_elements), Len(form.form_elements) + 1}
             /\ \A i \in DOMAIN form.form_elements : form'.form_elements[i] = form.form_elements[i]]_vars

C23_Witness ==
    /\ form # NoForm /\ Len(form.form_elements) = 2
    /\ form.form_elements[1].type = "textarea"
    /\ form.form_elements[2].type = "select"
    /\ rendered # NoCall

\* the keys under which the record holds None
Nulled(record) == {k \in {"max_select", "size", "default_value"} \cap DOMAIN record : record[k] = None}

\* the record of add_input has a key for each Optional argument given and none for one left out
OmitsAbsent(record) ==
    (record.type = "input" /\ "value" \in DOMAIN record) =>
        \E a \in InputArgs :
            /\ HoldsOpt(record, a, "min_length") /\ HoldsOpt(record, a, "max_length")
            /\ HoldsOpt(record, a, "pattern")
            /\ Holds(record, a, {"name", "input_type", "value"})

\* C24 as stated: add_input omits min_length, max_length and pattern when they
\* are None, and the only key a record of an add_* operation holds None under
\* is max_select
C24_OnlyMaxSelectNulled ==
    form # NoForm =>
        \A i \in DOMAIN form.form_elements :
            /\ OmitsAbsent(form.form_elements[i])
            /\ Nulled(form.form_elements[i]) \subseteq {"max_select"}

\* C24: add_input omits min_length, max_length and pattern when they are None;
\* a checkbox group always has a max_select key, a select a size key and a
\* radio group a default_value key, None when the argument was left out, and
\* no other record holds None
C24_NulledFields ==
    form # NoForm =>
        \A i \in DOMAIN form.form_elements :
            LET record == form.form_elements[i]
            IN  /\ OmitsAbsent(record)
                /\ record.type = "checkbox_group" => ("max_select" \in DOMAIN record /\ Nulled(record) \subseteq {"max_select"})
                /\ record.type = "select" => ("size" \in DOMAIN record /\ Nulled(record) \subseteq {"size"})
                /\ record.type = "radio_group" => ("default_value" \in DOMAIN record /\ Nulled(record) \subseteq {"default_value"})
                /\ record.type \notin {"checkbox_group", "select", "radio_group"} => Nulled(record) = {}

C24_Witness ==
    /\ form # NoForm /\ Len(form.form_elements) = 2
    /\ form.form_elements[1].type = "input" /\ "value" \in DOMAIN form.form_elements[1]
    /\ {"min_length", "max_length", "pattern"} \cap DOMAIN form.form_elements[1] = {}
    /\ form.form_elements[2].type = "select" /\ form.form_elements[2].size = None

Accepted(d) == validate(d).ok /\ deserialize(d).ok

\* N(d) = create_from_json(d).to_dict()
N(d) == to_dict(deserialize(d).obj)

\* C26: for every document D that create_from_json accepts and whose
\* N(D) = create_from_json(D).to_dict() it accepts too, N(N(D)) = N(D)
C26_NormalizationIdempotent ==
    (form = NoForm /\ pc = "returned" /\ Accepted(to_dict(instance))) =>
        N(to_dict(instance)) = to_dict(instance)

C26_Witness ==
    /\ form = NoForm /\ pc = "returned" /\ Accepted(to_dict(instance))
    /\ to_dict(instance) # data
    /\ Len(instance.form_elements) = 2
    /\ instance.form_elements[1].type = "textarea"
    /\ instance.form_elements[2].type = "input" /\ instance.form_elements[2].input_type = "email"
    /\ "value" \in DOMAIN data.form.form_element_list[2]

\* the four fields only add_input takes
InputOnly == {"value", "min_length", "max_length", "pattern"}

\* the built record holds each of the four fields the source record has
Carried(given, built) == \A k \in InputOnly \cap DOMAIN given : k \in DOMAIN built /\ built[k] = given[k]

\* the record built for an email or url source record has the fixed keys of
\* add_email_input or add_url_input and nothing else
FixedFields(given, built) ==
    /\ given.input_type = "email" =>
          /\ DOMAIN built = {"type", "input_type", "name", "required", "label", "placeholder", "multiple"}
          /\ built.multiple = Get(given, "multiple", FALSE)
    /\ given.input_type = "url" =>
          DOMAIN built = {"type", "input_type", "name", "required", "label", "placeholder"}

\* a form was returned for a document whose elements are all inputs
InputsReturned ==
    /\ form = NoForm /\ pc = "returned"
    /\ \A i \in DOMAIN data.form.form_element_list : data.form.form_element_list[i].type = "input"

\* C27 as stated: an email or url record is rebuilt with the fixed keys only,
\* and a record of every other input_type keeps its value, min_length,
\* max_length and pattern
C27_AllOthersCarried ==
    InputsReturned =>
        \A i \in DOMAIN data.form.form_element_list :
            LET given == data.form.form_element_list[i]
                built == instance.form_elements[i]
            IN  /\ FixedFields(given, built)
                /\ given.input_type \notin {"email", "url"} => Carried(given, built)

\* C27: an email or url record is rebuilt with the fixed keys only; a record
\* of another input_type keeps its value, min_length, max_length and pattern
\* when it goes to add_input, and loses them when it is a checkbox record with
\* a checked key, which goes to add_checkbox
C27_FixedFieldSet ==
    InputsReturned =>
        \A i \in DOMAIN data.form.form_element_list :
            LET given == data.form.form_element_list[i]
                built == instance.form_elements[i]
            IN  /\ FixedFields(given, built)
                /\ given.input_type \notin {"email", "url"} =>
                      IF given.input_type = "checkbox" /\ "checked" \in DOMAIN given
                      THEN InputOnly \cap DOMAIN built = {}
                      ELSE Carried(given, built)

C27_Witness ==
    /\ InputsReturned /\ Len(instance.form_elements) = 2
    /\ data.form.form_element_list[1].input_type = "email"
    /\ {"value", "min_length"} \subseteq DOMAIN data.form.form_element_list[1]
    /\ data.form.form_element_list[2].input_type = "text"
    /\ InputOnly \subseteq DOMAIN data.form.form_element_list[2]

-----------------------------------------------------------------------------
(* Objects and references: to_dict and the options lists *)

\* element list = element list + [element]: a new list object, bound to self.form_elements
append_rebinding(h, self, element) ==
    LET list == h[h[self.ref].form_elements.ref]
    IN  [Append(h, Append(list, element)) EXCEPT ![self.ref].form_elements = Ref(Len(h) + 1)]

\* self.form_elements.append(element): the list object of self grows in place
append(h, self, element) ==
    [h EXCEPT ![h[self.ref].form_elements.ref] = Append(@, element)]

\* the element list of the form object at self
Elements(self) == heap[heap[self.ref].form_elements.ref]

\* F = HTML5FormData("f"): a header dict, an empty list, and the object holding both
alias_construct ==
    /\ names.F = NoRef /\ pc = "idle" /\ form = NoForm /\ ctor = NoCall
    /\ LET a == Len(heap)
       IN  /\ heap' = heap \o <<Fresh.form_header, <<>>, [form_header |-> Ref(a + 1), form_elements |-> Ref(a + 2)]>>
           /\ names' = [names EXCEPT !.F = Ref(a + 3)]
    /\ UNCHANGED <<form, ctor, pc, source, data, instance, err, schema, rendered, fragment, again, disk, loads>>

\* options = [...]: the client's own list
alias_new_options ==
    /\ names.options = NoRef /\ pc = "idle" /\ form = NoForm /\ ctor = NoCall
    /\ \E list \in {Options, <<>>} :
          /\ heap' = Append(heap, list)
          /\ names' = [names EXCEPT !.options = Ref(Len(heap) + 1)]
    /\ UNCHANGED <<form, ctor, pc, source, data, instance, err, schema, rendered, fragment, again, disk, loads>>

\* F.add_select, F.add_radio_group, F.add_checkbox_group or F.add_datalist with
\* the client's list as options, or F.add_textarea
alias_add ==
    /\ names.F # NoRef /\ names.options # NoRef /\ Len(Elements(names.F)) < MaxElems
    /\ \E made \in {add_select(Fresh, "a", names.options, FALSE, FALSE, None),
                     add_radio_group(Fresh, "a", names.options, FALSE, None),
                     add_checkbox_group(Fresh, "a", names.options, FALSE, 0, None),
                     add_datalist(Fresh, "a", names.options, FALSE, ""),
                     add_textarea(Fresh, "a", FALSE, "", 3, 40, "", "")} :
          heap' = append(heap, names.F, made.form_elements[1])
    /\ UNCHANGED <<form, ctor, pc, source, data, instance, err, schema, rendered, fragment, again, disk, loads, names>>

\* r = F.to_dict()
alias_to_dict ==
    /\ names.F # NoRef /\ names.r = NoForm
    /\ names' = [names EXCEPT !.r = to_dict(heap[names.F.ref]), !.taken_at = Len(Elements(names.F))]
    /\ UNCHANGED <<form, ctor, pc, source, data, instance, err, schema, rendered, fragment, again, disk, loads, heap>>

\* options.append(...): the client changes its list after it has passed it on
alias_options_append ==
    /\ names.options # NoRef /\ Len(heap[names.options.ref]) < 3
    /\ names.F # NoRef \/ names.G # NoForm
    /\ heap' = [heap EXCEPT ![names.options.ref] = Append(@, [value |-> "3", label |-> "Three"])]
    /\ UNCHANGED <<form, ctor, pc, source, data, instance, err, schema, rendered, fragment, again, disk, loads, names>>

\* G = create_from_json(D) of a dict D whose one record holds the client's list
alias_create_from_json ==
    /\ names.options # NoRef /\ names.G = NoForm
    /\ \E type \in OptionKinds :
          LET D == Document(StdHeader, <<[type |-> type, name |-> "a", options |-> names.options]>>)
          IN  /\ load_source(Dict(D)).ok /\ validate(D).ok /\ deserialize(D).ok
              /\ names' = [names EXCEPT !.G = deserialize(D).obj]
    /\ UNCHANGED <<form, ctor, pc, source, data, instance, err, schema, rendered, fragment, again, disk, loads, heap>>

NextAlias ==
    \/ alias_construct
    \/ alias_new_options
    \/ alias_add
    \/ alias_to_dict
    \/ alias_options_append
    \/ alias_create_from_json

SpecAlias == Init /\ [][NextAlias]_vars

\* what the dictionary d of references holds at present
Contents(d) ==
    [form |-> [form_header |-> heap[d.form.form_header.ref],
               form_element_list |-> heap[d.form.form_element_list.ref]]]

\* every options field of the records is the client's own list
SameOptions(records) ==
    \A i \in DOMAIN records : "options" \in DOMAIN records[i] => records[i].options = names.options

\* C28: after r = F.to_dict(), r holds F's own header and element list, so r
\* equals F.to_dict() in every later state, whatever add_* calls follow; the
\* options list given to add_select, add_radio_group, add_checkbox_group or
\* add_datalist, or held by a dict given to create_from_json, is stored as it
\* is, not as a copy
C28_LiveReferences ==
    /\ names.r # NoForm =>
          /\ names.r = to_dict(heap[names.F.ref])
          /\ Contents(names.r) = Contents(to_dict(heap[names.F.ref]))
          /\ Contents(names.r).form.form_element_list = Elements(names.F)
    /\ names.F # NoRef => SameOptions(Elements(names.F))
    /\ names.G # NoForm => SameOptions(names.G.form_elements)

C28_Witness ==
    /\ names.r # NoForm /\ names.taken_at = 0
    /\ Len(Contents(names.r).form.form_element_list) = 2
    /\ Contents(names.r).form.form_element_list[1].type = "select"
    /\ Len(heap[names.options.ref]) = 3
    /\ names.G # NoForm /\ names.G.form_elements[1].type = "datalist"

\* the fragment has the attribute
Emits(fr, attr) == attr \in DOMAIN fr /\ fr[attr] # None

\* the input record has the limit, and it is not 0
Limit(element, key) == key \in DOMAIN element /\ element[key] # 0

\* Bulma renders a checkbox group of max_select 0 as it renders one of
\* max_select None: no data-max-select, and 'unlimited' in the help text
ZeroMaxSelectAsNone(skin, element) ==
    (skin = "BulmaFormTemplate" /\ element.type = "checkbox_group" /\ element.max_select \in {None, Some(0)}) =>
        LET fr == Bulma_render_checkbox_group(element)
        IN  /\ fr = Bulma_render_checkbox_group([element EXCEPT !.max_select = None])
            /\ fr.help_max = Some("unlimited")
            /\ \A k \in DOMAIN fr.options : fr.options[k].data_max_select = None

WithChecked(element, c) == [k \in DOMAIN element \cup {"checked"} |-> IF k = "checked" THEN c ELSE element[k]]

\* C30: for an input record of input_type checkbox the Bulma markup has checked
\* exactly when the record's checked field is true, so never for a record made
\* by add_input, which has no such field; the Bootstrap5 and Materialize markup
\* has no checked and is the same with checked true, false or absent
C30_CheckboxState ==
    MarkupBuilt =>
        \A i \in DOMAIN fragment.before.form_elements :
            LET element == fragment.before.form_elements[i]
                fr == Fragment(fragment.skin, element)[1]
            IN  IsCheckboxInput(element) =>
                    /\ \E k \in DOMAIN fragment.outcome.obj : fragment.outcome.obj[k] = fr
                    /\ IF fragment.skin = "BulmaFormTemplate"
                       THEN /\ fr.checked <=> ("checked" \in DOMAIN element /\ element.checked)
                            /\ "checked" \notin DOMAIN element => ~fr.checked
                       ELSE /\ "checked" \notin DOMAIN fr
                            /\ fr = Fragment(fragment.skin, Without(element, "checked"))[1]
                            /\ fr = Fragment(fragment.skin, WithChecked(element, TRUE))[1]
                            /\ fr = Fragment(fragment.skin, WithChecked(element, FALSE))[1]

C30_Witness ==
    /\ MarkupBuilt /\ fragment.skin = "BulmaFormTemplate"
    /\ Len(fragment.before.form_elements) = 2
    /\ LET e1 == fragment.before.form_elements[1]
           e2 == fragment.before.form_elements[2]
       IN  /\ IsCheckboxInput(e1) /\ "checked" \in DOMAIN e1 /\ e1.checked
           /\ IsCheckboxInput(e2) /\ "checked" \notin DOMAIN e2 /\ "value" \in DOMAIN e2
           /\ fragment.outcome.obj[2].checked /\ ~fragment.outcome.obj[3].checked

=============================================================================
